---- MODULE Spec2Model ----
(***************************************************************************)
(* Order matching engine of the trading platform: TradingService (Kafka    *)
(* consumer, in-memory order book, matching loop), the order / trade /     *)
(* account models (SQL statements) and the triggers and constraints of     *)
(* the database schema they run against.                                   *)
(*                                                                         *)
(* Amounts are fixed-point integers in units of 1/CommissionDenominator of *)
(* an asset, which is exact for DECIMAL(30,10) on the values used here.    *)
(* A statement is executed as its text reads: $n is the n-th bound value.  *)
(***************************************************************************)
EXTENDS Integers, Sequences, FiniteSets, Bags, TLC

VARIABLES
  db,        \* the database as the engine's connection sees it: orders, balances, trades, transactions
  saved,     \* the database at BEGIN of the transaction in flight (what ROLLBACK restores)
  book,      \* TradingService.orderBooks for the symbol: has / bids / asks
  pc,        \* position of the consumer's eachMessage callback: "idle" | "matching"
  cur,       \* the order returned by orderModel.createOrder in the handler in flight
  iter,      \* iterations the matching loop has run in the handler in flight
  nextId,    \* number of order ids (uuidv4) in use so far
  cmdNo,     \* number of commands the consumer has taken so far
  emitSeq,   \* number of broadcast calls so far
  subs,      \* ws.subscriptions of each connection: a set of subscription ids
  inbox,     \* the broadcast messages each connection's client has received, in order of receipt
  lastFill,  \* the fill made by the last iteration of the matching loop in this command
  outcome,   \* how the last handler ended: "none" | "committed" | "rolledback"
  observed,  \* whether commands and broadcasts are numbered in this run (for the event stream)
  lastError, \* key of the message the last command sent to trading-errors: "none" | the topic it came from
  topics,    \* the messages of the Kafka topics new-orders and cancel-orders not yet consumed
  sent,      \* number of messages the producer has sent to the two topics
  taken,     \* number, in order of sending, of the last message the consumer has taken
  answers,   \* the order snapshots createOrder has returned for the messages of new-orders not yet consumed
  clients,   \* WebSocketService.clients
  sockets,   \* each connection's socket: readyState, the token it came with, isAlive, how it was closed
  published, \* the broadcast calls made by the last handler step that published
  wsReady,   \* whether initWebSocket has set the module's webSocketService
  wsClient   \* the front end's webSocketService: its fields, its sockets and its pending timers

\* the Kafka side of the service
kafkaVars == <<topics, sent, taken, answers>>

\* the registry of the WebSocket service
wsVars == <<clients, sockets>>

vars == <<db, saved, book, pc, cur, iter, nextId, cmdNo, emitSeq, subs, inbox, lastFill, outcome, observed,
          lastError, topics, sent, taken, answers, clients, sockets, published, wsReady, wsClient>>

----------------------------------------------------------------------------
(* Bounds of the model *)

MaxOrders == 3
MaxIter == 2
MaxCmds == 4

(* Inputs *)

Users == {"u1", "u2"}
Sides == {"BUY", "SELL"}
Prices == {1, 2}
Quantities == {1, 2}
Channels == {"order", "trade"}

\* 0.1% commission: commission = value * 0.001
CommissionDenominator == 1000

\* one unit of an asset in fixed-point
Unit == CommissionDenominator

DepositAmounts == {2 * Unit}
WithdrawAmounts == {1 * Unit, 3 * Unit}

\* the accounts that are funded: u1 holds USDT, u2 holds BTC
Fundings == {<<"u1", <<"U", "S", "D", "T">> >>, <<"u2", <<"B", "T", "C">> >>}

OrderIds == 1..MaxOrders

\* the traded symbol, 'BTCUSDT', as its characters
Symbol == <<"B", "T", "C", "U", "S", "D", "T">>

\* a symbol nothing is traded in, 'ETHUSDT'
OtherSymbol == <<"E", "T", "H", "U", "S", "D", "T">>

\* the WebSocket connections that may be opened
Connections == {"ws1", "ws2"}

\* the sec-websocket-protocol header of a connection: no token, a token jwt.verify rejects,
\* the token of a user, the token of a user that is not in the table
NoToken == [present |-> FALSE, verifies |-> FALSE, userId |-> "u1"]
UserToken == [present |-> TRUE, verifies |-> TRUE, userId |-> "u1"]
Tokens == {NoToken,
           [present |-> TRUE, verifies |-> FALSE, userId |-> "u1"],
           UserToken,
           [present |-> TRUE, verifies |-> TRUE, userId |-> "u0"]}

\* the subscriptions a client asks for, as channel and symbol
SubscriptionRequests == {<<"order", Symbol>>, <<"trade", Symbol>>, <<"order", OtherSymbol>>}

----------------------------------------------------------------------------
(* Symbol decomposition *)

\* trade.symbol.slice(0, -3)
SliceBaseAsset(s) == SubSeq(s, 1, Len(s) - 3)

\* trade.symbol.slice(-3)
SliceQuoteAsset(s) == SubSeq(s, Len(s) - 2, Len(s))

\* base_asset := RIGHT(symbol, LENGTH(symbol) - 3)
SqlBaseAsset(s) == SubSeq(s, 4, Len(s))

\* quote_asset := LEFT(symbol, 3)
SqlQuoteAsset(s) == SubSeq(s, 1, 3)

----------------------------------------------------------------------------
(* account_balances: a function from the (user_id, asset) pairs that have a row *)

\* an account_balances table without the CHECK constraint
valid_balances_unchecked(row) == TRUE

\* CONSTRAINT valid_balances CHECK (free_balance >= 0 AND locked_balance >= 0)
valid_balances(row) == row.free >= 0 /\ row.locked >= 0

HasRow(bal, userId, asset) == <<userId, asset>> \in DOMAIN bal

\* the table with the row of (userId, asset) inserted or replaced
PutRow(bal, userId, asset, row) ==
  [k \in DOMAIN bal \cup {<<userId, asset>>} |-> IF k = <<userId, asset>> THEN row ELSE bal[k]]

\* AccountModel.updateBalance: INSERT ... VALUES ($1, $2, $3, $4) ON CONFLICT (user_id, asset)
\* DO UPDATE SET <updatesSet>. updates is the object { freeBalance?, lockedBalance? };
\* values = [userId, asset, <given updates>, freeBalance ?? 0, lockedBalance ?? 0].
\* A row that breaks valid_balances makes the statement fail.
updateBalance(bal, userId, asset, updates) ==
  LET hasFree == "freeBalance" \in DOMAIN updates
      hasLocked == "lockedBalance" \in DOMAIN updates
      updatesSet == (IF hasFree THEN <<"free">> ELSE <<>>) \o (IF hasLocked THEN <<"locked">> ELSE <<>>)
      values == <<userId, asset>>
                 \o (IF hasFree THEN <<updates.freeBalance>> ELSE <<>>)
                 \o (IF hasLocked THEN <<updates.lockedBalance>> ELSE <<>>)
                 \o <<IF hasFree THEN updates.freeBalance ELSE 0,
                      IF hasLocked THEN updates.lockedBalance ELSE 0>>
      setCol(row, i) == [row EXCEPT ![updatesSet[i]] = values[2 + i]]
      updated(old) == IF Len(updatesSet) = 1 THEN setCol(old, 1) ELSE setCol(setCol(old, 1), 2)
      new == IF HasRow(bal, userId, asset)
               THEN updated(bal[<<userId, asset>>])
               ELSE [free |-> values[3], locked |-> values[4]]
  IN IF Len(updatesSet) = 0
       THEN [ok |-> FALSE, bal |-> bal]
       ELSE IF ~valid_balances(new)
         THEN [ok |-> FALSE, bal |-> bal]
         ELSE [ok |-> TRUE, bal |-> PutRow(bal, userId, asset, new)]

----------------------------------------------------------------------------
(* orders: a function from the ids that have a row; trades: the rows in insertion order *)

OpenStatuses == {"OPEN", "PARTIALLY_FILLED"}

\* CONSTRAINT valid_quantity CHECK (quantity > 0)
valid_quantity(row) == row.quantity > 0

\* CONSTRAINT valid_filled_quantity CHECK (filled_quantity >= 0 AND filled_quantity <= quantity)
valid_filled_quantity(row) == row.filledQuantity >= 0 /\ row.filledQuantity <= row.quantity

\* lock_order_funds(), BEFORE INSERT ON orders
lock_order_funds(bal, new) ==
  LET base_asset == SqlBaseAsset(Symbol)
      quote_asset == SqlQuoteAsset(Symbol)
      asset_to_lock == IF new.side = "BUY" THEN quote_asset ELSE base_asset
      amount_to_lock == IF new.side = "BUY" THEN new.price * new.quantity * Unit ELSE new.quantity * Unit
      k == <<new.userId, asset_to_lock>>
  IN IF k \notin DOMAIN bal
       THEN [ok |-> FALSE, bal |-> bal]
       ELSE IF bal[k].free < amount_to_lock
         THEN [ok |-> FALSE, bal |-> bal]
         ELSE LET row == [free |-> bal[k].free - amount_to_lock, locked |-> bal[k].locked + amount_to_lock]
              IN [ok |-> valid_balances(row), bal |-> [bal EXCEPT ![k] = row]]

\* OrderModel.createOrder: INSERT INTO orders, status OPEN, filled_quantity at its default 0
createOrder(d, id, orderData) ==
  LET new == [id |-> id, userId |-> orderData.userId, type |-> orderData.type, side |-> orderData.side,
              price |-> orderData.price, quantity |-> orderData.quantity,
              timeInForce |-> orderData.timeInForce,
              filledQuantity |-> 0, status |-> "OPEN"]
      locked == lock_order_funds(d.bal, new)
  IN IF ~valid_quantity(new) \/ ~locked.ok
       THEN [ok |-> FALSE, db |-> d, order |-> new]
       ELSE [ok |-> TRUE,
             db |-> [d EXCEPT !.bal = locked.bal,
                              !.orders = [i \in DOMAIN d.orders \cup {id} |->
                                            IF i = id THEN new ELSE d.orders[i]]],
             order |-> new]

\* OrderModel.getOrderById: WHERE id = $1 AND user_id = $2; <<>> for null
getOrderById(d, orderId, userId) ==
  IF orderId \in DOMAIN d.orders
    THEN (IF d.orders[orderId].userId = userId THEN <<d.orders[orderId]>> ELSE <<>>)
    ELSE <<>>

\* TradeModel.createTrade: INSERT INTO trades; order_id REFERENCES orders(id)
createTrade(d, tradeData) ==
  IF tradeData.orderId \notin DOMAIN d.orders \/ tradeData.quantity <= 0 \/ tradeData.commission < 0
    THEN [ok |-> FALSE, db |-> d]
    ELSE [ok |-> TRUE, db |-> [d EXCEPT !.trades = Append(@, tradeData)]]

\* process_order_fill(), AFTER UPDATE OF filled_quantity ON orders
\* WHEN (NEW.filled_quantity > OLD.filled_quantity); d holds the updated row
process_order_fill(d, old, new) ==
  LET row == d.orders[new.id]
      user_id_val == row.userId
      price_val == row.price
      base_asset == SqlBaseAsset(Symbol)
      quote_asset == SqlQuoteAsset(Symbol)
      trade_amount == (new.filledQuantity - old.filledQuantity) * Unit
      trade_value == (new.filledQuantity - old.filledQuantity) * price_val * Unit
      commission_val == trade_value \div CommissionDenominator
      is_maker_val == \E i \in DOMAIN d.orders :
                         /\ i # new.id
                         /\ \/ d.orders[i].side = "BUY" /\ d.orders[i].price >= price_val
                            \/ d.orders[i].side = "SELL" /\ d.orders[i].price <= price_val
      trade == [orderId |-> new.id, userId |-> user_id_val, price |-> price_val,
                quantity |-> new.filledQuantity - old.filledQuantity,
                commission |-> commission_val, isBuyer |-> (row.side = "BUY"),
                isMaker |-> is_maker_val]
      gain == IF row.side = "BUY" THEN trade_amount - commission_val ELSE trade_value - commission_val
      gainAsset == IF row.side = "BUY" THEN base_asset ELSE quote_asset
      pay == IF row.side = "BUY" THEN trade_value ELSE trade_amount
      payAsset == IF row.side = "BUY" THEN quote_asset ELSE base_asset
      gk == <<user_id_val, gainAsset>>
      pk == <<user_id_val, payAsset>>
      gained == IF gk \in DOMAIN d.bal
                  THEN [free |-> d.bal[gk].free + gain, locked |-> d.bal[gk].locked]
                  ELSE [free |-> gain, locked |-> 0]
      bal1 == PutRow(d.bal, user_id_val, gainAsset, gained)
      bal2 == IF bal1[pk].locked >= pay
                THEN [bal1 EXCEPT ![pk].locked = @ - pay]
                ELSE bal1
  IN IF new.filledQuantity = old.filledQuantity
       THEN [ok |-> TRUE, db |-> d]
       ELSE IF ~valid_balances(gained) \/ pk \notin DOMAIN bal1
         THEN [ok |-> FALSE, db |-> d]
         ELSE [ok |-> TRUE, db |-> [d EXCEPT !.trades = Append(@, trade), !.bal = bal2]]

\* an update of the filled quantity that leaves the status as it was
updateOrderFilledQuantity_status_kept(d, orderId, filledQuantity) ==
  IF orderId \notin DOMAIN d.orders
    THEN [ok |-> TRUE, db |-> d]
    ELSE
      LET old == d.orders[orderId]
          new == [old EXCEPT !.filledQuantity = filledQuantity]
          d1 == [d EXCEPT !.orders[orderId] = new]
      IN IF ~valid_filled_quantity(new)
           THEN [ok |-> FALSE, db |-> d]
           ELSE IF new.filledQuantity > old.filledQuantity
             THEN LET t == process_order_fill(d1, old, new)
                  IN [ok |-> t.ok, db |-> IF t.ok THEN t.db ELSE d]
             ELSE [ok |-> TRUE, db |-> d1]

\* OrderModel.updateOrderFilledQuantity: UPDATE orders SET filled_quantity = $1, status = CASE ... WHERE id = $4
updateOrderFilledQuantity(d, orderId, filledQuantity) ==
  IF orderId \notin DOMAIN d.orders
    THEN [ok |-> TRUE, db |-> d]
    ELSE
      LET old == d.orders[orderId]
          new == [old EXCEPT !.filledQuantity = filledQuantity,
                             !.status = IF filledQuantity >= old.quantity THEN "FILLED"
                                        ELSE IF filledQuantity > 0 THEN "PARTIALLY_FILLED"
                                        ELSE @]
          d1 == [d EXCEPT !.orders[orderId] = new]
      IN IF ~valid_filled_quantity(new)
           THEN [ok |-> FALSE, db |-> d]
           ELSE IF new.filledQuantity > old.filledQuantity
             THEN LET t == process_order_fill(d1, old, new)
                  IN [ok |-> t.ok, db |-> IF t.ok THEN t.db ELSE d]
             ELSE [ok |-> TRUE, db |-> d1]

\* a cancellation that leaves the reserved funds locked
unlock_order_funds_skipped(bal, new) == bal

\* unlock_order_funds(), BEFORE UPDATE ON orders WHEN (NEW.status = 'CANCELLED' AND OLD.status != 'CANCELLED');
\* an error inside it is caught (EXCEPTION WHEN OTHERS ... RETURN NEW) and undoes only its own update
unlock_order_funds(bal, new) ==
  LET base_asset == SqlBaseAsset(Symbol)
      quote_asset == SqlQuoteAsset(Symbol)
      remaining_quantity == new.quantity - new.filledQuantity
      asset_to_unlock == IF new.side = "BUY" THEN quote_asset ELSE base_asset
      amount_to_unlock == IF new.side = "BUY" THEN new.price * remaining_quantity * Unit
                          ELSE remaining_quantity * Unit
      k == <<new.userId, asset_to_unlock>>
      row == [free |-> bal[k].free + amount_to_unlock, locked |-> bal[k].locked - amount_to_unlock]
  IN IF remaining_quantity <= 0 \/ k \notin DOMAIN bal
       THEN bal
       ELSE IF valid_balances(row) THEN [bal EXCEPT ![k] = row] ELSE bal

\* a cancellation that does not look at the owner of the order
cancelOrder_anyone(d, orderId, userId) ==
  IF orderId \notin DOMAIN d.orders
    THEN [db |-> d, rows |-> <<>>]
    ELSE
      LET old == d.orders[orderId]
          new == [old EXCEPT !.status = "CANCELLED"]
      IN IF old.status \notin OpenStatuses
           THEN [db |-> d, rows |-> <<>>]
           ELSE [db |-> [d EXCEPT !.orders[orderId] = new, !.bal = unlock_order_funds(d.bal, new)],
                 rows |-> <<new>>]

\* OrderModel.cancelOrder: UPDATE orders SET status = 'CANCELLED' WHERE id = $2 AND user_id = $3
\* AND status IN ('OPEN', 'PARTIALLY_FILLED'); rows is <<>> when no row matched
cancelOrder(d, orderId, userId) ==
  IF orderId \notin DOMAIN d.orders
    THEN [db |-> d, rows |-> <<>>]
    ELSE
      LET old == d.orders[orderId]
          new == [old EXCEPT !.status = "CANCELLED"]
      IN IF old.userId # userId \/ old.status \notin OpenStatuses
           THEN [db |-> d, rows |-> <<>>]
           ELSE [db |-> [d EXCEPT !.orders[orderId] = new, !.bal = unlock_order_funds(d.bal, new)],
                 rows |-> <<new>>]

\* OrderModel.getOpenOrdersBySymbol: ORDER BY CASE WHEN side = 'BUY' THEN price END DESC,
\* CASE WHEN side = 'SELL' THEN price END ASC, created_at ASC (a NULL key sorts first under DESC);
\* ids are handed out in order of creation
OpenOrderBefore(a, b) ==
  IF a.side # b.side THEN a.side = "SELL"
  ELSE IF a.price # b.price THEN (IF a.side = "BUY" THEN a.price > b.price ELSE a.price < b.price)
  ELSE a.id < b.id

\* a query that returns the orders of every status
getOpenOrdersBySymbol_any_status(d, limit) ==
  LET S == {d.orders[i] : i \in DOMAIN d.orders}
      n == Cardinality(S)
      all == [i \in 1..n |-> CHOOSE r \in S : Cardinality({x \in S : OpenOrderBefore(x, r)}) = i - 1]
  IN SubSeq(all, 1, IF n < limit THEN n ELSE limit)

HydrateLimit == 1000

getOpenOrdersBySymbol(d, limit) ==
  LET S == {d.orders[i] : i \in {j \in DOMAIN d.orders : d.orders[j].status \in OpenStatuses}}
      n == Cardinality(S)
      all == [i \in 1..n |-> CHOOSE r \in S : Cardinality({x \in S : OpenOrderBefore(x, r)}) = i - 1]
  IN SubSeq(all, 1, IF n < limit THEN n ELSE limit)

----------------------------------------------------------------------------
(* The in-memory order book *)

\* a sort that puts an order before the orders it ties with
InsertBeforeTies(acc, x, dir) ==
  LET k == Cardinality({i \in 1..Len(acc) : dir * (acc[i].price - x.price) < 0})
  IN SubSeq(acc, 1, k) \o <<x>> \o SubSeq(acc, k + 1, Len(acc))

\* Array.prototype.sort with the comparator dir * (a.price - b.price): a stable sort
InsertStable(acc, x, dir) ==
  LET k == Cardinality({i \in 1..Len(acc) : dir * (acc[i].price - x.price) <= 0})
  IN SubSeq(acc, 1, k) \o <<x>> \o SubSeq(acc, k + 1, Len(acc))

RECURSIVE SortFrom(_, _, _)
SortFrom(acc, rest, dir) ==
  IF rest = <<>> THEN acc ELSE SortFrom(InsertStable(acc, Head(rest), dir), Tail(rest), dir)

SortByPrice(seq, dir) == SortFrom(<<>>, seq, dir)

\* TradingService.addToOrderBook
addToOrderBook(bk, order, d) ==
  LET openOrders == getOpenOrdersBySymbol(d, HydrateLimit)
      orderBook == IF bk.has THEN bk
                   ELSE [has |-> TRUE,
                         bids |-> SelectSeq(openOrders, LAMBDA o : o.side = "BUY"),
                         asks |-> SelectSeq(openOrders, LAMBDA o : o.side = "SELL")]
  IN IF order.side = "BUY"
       THEN [orderBook EXCEPT !.bids = SortByPrice(Append(@, order), -1)]
       ELSE [orderBook EXCEPT !.asks = SortByPrice(Append(@, order), 1)]

----------------------------------------------------------------------------
(* Event publication; w holds the clients' inboxes, the broadcast counter, the calls made and
   whether an exception has left the publishing method *)

\* the characters of a channel name
Letters(channel) ==
  IF channel = "order" THEN <<"o", "r", "d", "e", "r">> ELSE <<"t", "r", "a", "d", "e">>

\* `${channel}:${symbol}`
subscriptionId(channel, symbol) == Letters(channel) \o <<":">> \o symbol

\* the message of a broadcast call
Message(w, channel, symbol, data) ==
  [channel |-> channel, symbol |-> symbol, cmd |-> cmdNo,
   seq |-> IF observed THEN w.emitSeq + 1 ELSE w.emitSeq, data |-> data]

\* client.readyState === WebSocket.OPEN && client.subscriptions.has(subscriptionId), for a
\* client of this.clients
Receives(c, channel, symbol) ==
  /\ c \in clients
  /\ sockets[c].readyState = "OPEN"
  /\ subscriptionId(channel, symbol) \in subs[c]

\* a broadcast that delivers the newest message ahead of the earlier ones
broadcast_newest_first(w, channel, symbol, data) ==
  [thrown |-> w.thrown,
   emitSeq |-> IF observed THEN w.emitSeq + 1 ELSE w.emitSeq,
   log |-> IF observed THEN Append(w.log, Message(w, channel, symbol, data)) ELSE w.log,
   inbox |-> [c \in Connections |->
                IF Receives(c, channel, symbol)
                  THEN <<Message(w, channel, symbol, data)>> \o w.inbox[c]
                  ELSE w.inbox[c]]]

\* a broadcast that sends to every open client, subscribed or not
broadcast_unfiltered(w, channel, symbol, data) ==
  [thrown |-> w.thrown,
   emitSeq |-> IF observed THEN w.emitSeq + 1 ELSE w.emitSeq,
   log |-> IF observed THEN Append(w.log, Message(w, channel, symbol, data)) ELSE w.log,
   inbox |-> [c \in Connections |->
                IF c \in clients /\ sockets[c].readyState = "OPEN"
                  THEN Append(w.inbox[c], Message(w, channel, symbol, data))
                  ELSE w.inbox[c]]]

\* WebSocketService.broadcast: send to each client that is open and subscribed to channel:symbol
broadcast(w, channel, symbol, data) ==
  [thrown |-> w.thrown,
   emitSeq |-> IF observed THEN w.emitSeq + 1 ELSE w.emitSeq,
   log |-> IF observed THEN Append(w.log, Message(w, channel, symbol, data)) ELSE w.log,
   inbox |-> [c \in Connections |->
                IF Receives(c, channel, symbol)
                  THEN Append(w.inbox[c], Message(w, channel, symbol, data))
                  ELSE w.inbox[c]]]

\* a publishOrderUpdate without its try / catch
publishOrderUpdate_uncaught(w, order) ==
  IF ~wsReady
    THEN [w EXCEPT !.thrown = TRUE]
    ELSE broadcast(w, "order", Symbol,
                   [id |-> order.id, status |-> order.status, filledQuantity |-> order.filledQuantity])

\* TradingService.publishOrderUpdate: getWebSocketService throws when the service is not
\* initialized; the catch logs the error and the method returns
publishOrderUpdate(w, order) ==
  IF ~wsReady
    THEN w
    ELSE broadcast(w, "order", Symbol,
                   [id |-> order.id, status |-> order.status, filledQuantity |-> order.filledQuantity])

\* TradingService.publishTrade: as publishOrderUpdate
publishTrade(w, trade) ==
  IF ~wsReady
    THEN w
    ELSE broadcast(w, "trade", Symbol,
                   [orderId |-> trade.orderId, price |-> trade.price, quantity |-> trade.quantity])

----------------------------------------------------------------------------
(* Matching *)

Min(a, b) == IF a <= b THEN a ELSE b

\* the condition under which the loop of matchOrders makes another fill
Crossing(bk) ==
  /\ bk.has
  /\ Len(bk.bids) > 0
  /\ Len(bk.asks) > 0
  /\ bk.bids[1].price >= bk.asks[1].price

\* a fill of the larger of the two remaining quantities
tradeQuantity_max(bestBid, bestAsk) ==
  IF bestBid.quantity - bestBid.filledQuantity >= bestAsk.quantity - bestAsk.filledQuantity
    THEN bestBid.quantity - bestBid.filledQuantity
    ELSE bestAsk.quantity - bestAsk.filledQuantity

\* the quantity of the fill: Math.min of the two remaining quantities
tradeQuantity(bestBid, bestAsk) ==
  Min(bestBid.quantity - bestBid.filledQuantity, bestAsk.quantity - bestAsk.filledQuantity)

\* the price of the fill
tradePrice(bestBid, bestAsk) == bestAsk.price

\* TradingService.updateBalancesForTrade; dbError: the database reports an error for a statement
updateBalancesForTrade(d, trade, dbError) ==
  LET baseAsset == SliceBaseAsset(Symbol)
      quoteAsset == SliceQuoteAsset(Symbol)
      r1 == updateBalance(d.bal, trade.userId, baseAsset, [freeBalance |-> trade.quantity * Unit])
      r2 == updateBalance(r1.bal, trade.userId, quoteAsset,
                          [freeBalance |-> trade.price * trade.quantity * Unit])
  IN IF dbError \/ ~r1.ok
       THEN [ok |-> FALSE, db |-> d]
       ELSE [ok |-> r2.ok, db |-> [d EXCEPT !.bal = r2.bal]]

\* one iteration of the while loop of TradingService.matchOrders, for a crossing book
matchIteration(d, bk, w, dbError) ==
  LET bestBid == bk.bids[1]
      bestAsk == bk.asks[1]
      quantity == tradeQuantity(bestBid, bestAsk)
      price == tradePrice(bestBid, bestAsk)
      trade == [orderId |-> bestBid.id, userId |-> bestBid.userId, price |-> price,
                quantity |-> quantity,
                commission |-> (quantity * price * Unit) \div CommissionDenominator,
                isBuyer |-> TRUE, isMaker |-> FALSE]
      t == createTrade(d, trade)
      u1 == updateOrderFilledQuantity(t.db, bestBid.id, bestBid.filledQuantity + quantity)
      u2 == updateOrderFilledQuantity(u1.db, bestAsk.id, bestAsk.filledQuantity + quantity)
      b == updateBalancesForTrade(u2.db, trade, dbError)
      bids1 == IF bestBid.filledQuantity >= bestBid.quantity THEN Tail(bk.bids) ELSE bk.bids
      asks1 == IF bestAsk.filledQuantity >= bestAsk.quantity THEN Tail(bk.asks) ELSE bk.asks
      w1 == publishTrade(w, trade)
      updatedBid == getOrderById(b.db, bestBid.id, bestBid.userId)
      updatedAsk == getOrderById(b.db, bestAsk.id, bestAsk.userId)
      w2 == IF updatedBid # <<>> THEN publishOrderUpdate(w1, updatedBid[1]) ELSE w1
      w3 == IF updatedAsk # <<>> THEN publishOrderUpdate(w2, updatedAsk[1]) ELSE w2
  IN IF ~t.ok THEN [ok |-> FALSE, db |-> d, book |-> bk, w |-> w]
     ELSE IF ~u1.ok THEN [ok |-> FALSE, db |-> d, book |-> bk, w |-> w]
     ELSE IF ~u2.ok THEN [ok |-> FALSE, db |-> d, book |-> bk, w |-> w]
     ELSE IF ~b.ok THEN [ok |-> FALSE, db |-> d, book |-> bk, w |-> w]
     ELSE IF w3.thrown THEN [ok |-> FALSE, db |-> d, book |-> bk, w |-> w]
     ELSE [ok |-> TRUE, db |-> b.db, book |-> [bk EXCEPT !.bids = bids1, !.asks = asks1], w |-> w3]

----------------------------------------------------------------------------
(* State machine *)

EmptyBook == [has |-> FALSE, bids |-> <<>>, asks |-> <<>>]

NoOrder == [id |-> 0]

NoFill == [bid |-> 0]

\* a connection that has not been opened
NoSocket == [readyState |-> "NONE", token |-> NoToken, auth |-> "none", isAlive |-> FALSE,
             pingPending |-> FALSE, closeCode |-> 0, hungUp |-> FALSE]

EmptyTopics == [newOrders |-> <<>>, cancelOrders |-> <<>>]

\* the WebSocket objects the front end can have alive at a time, and the timers it can have pending
MaxSockets == 2
MaxTimers == 2
SocketIds == 1..MaxSockets

\* private maxReconnectAttempts = 5
maxReconnectAttempts == 5

\* the front end's webSocketService after its constructor: socket = null (0), isConnected = false,
\* reconnectAttempts = 0, token = null; no WebSocket object exists and no timer is pending
NoClient == [socket |-> 0, isConnected |-> FALSE, reconnectAttempts |-> 0, token |-> FALSE,
             live |-> [s \in SocketIds |-> "CLOSED"], timers |-> 0]

EmptyDb == [orders |-> <<>>, bal |-> <<>>, trades |-> <<>>, txns |-> EmptyBag]

Init ==
  /\ db = EmptyDb
  /\ saved = EmptyDb
  /\ book = EmptyBook
  /\ pc = "idle"
  /\ cur = NoOrder
  /\ iter = 0
  /\ nextId = 0
  /\ cmdNo = 0
  /\ emitSeq = 0
  /\ subs = [c \in Connections |-> {}]
  /\ inbox = [c \in Connections |-> <<>>]
  /\ lastFill = NoFill
  /\ outcome = "none"
  /\ observed = FALSE
  /\ lastError = "none"
  /\ topics = EmptyTopics
  /\ sent = 0
  /\ taken = 0
  /\ answers = <<>>
  /\ clients = {}
  /\ sockets = [c \in Connections |-> NoSocket]
  /\ published = <<>>
  /\ wsReady = TRUE
  /\ wsClient = NoClient

\* AccountModel.createTransaction: the row is inserted with status PENDING whatever the caller passes;
\* CONSTRAINT valid_amount CHECK (amount > 0)
createTransaction(d, transactionData) ==
  IF transactionData.amount <= 0
    THEN [ok |-> FALSE, db |-> d]
    ELSE [ok |-> TRUE,
          db |-> [d EXCEPT !.txns = @ (+) SetToBag({[transactionData EXCEPT !.status = "PENDING"]})]]

\* TradingService.depositFunds
depositFunds(d, userId, asset, amount) ==
  LET t == createTransaction(d, [userId |-> userId, type |-> "DEPOSIT", asset |-> asset,
                                 amount |-> amount, status |-> "COMPLETED"])
      r == updateBalance(t.db.bal, userId, asset, [freeBalance |-> amount])
  IN IF t.ok /\ r.ok THEN [ok |-> TRUE, db |-> [t.db EXCEPT !.bal = r.bal]] ELSE [ok |-> FALSE, db |-> d]

\* TradingService.withdrawFunds
withdrawFunds(d, userId, asset, amount) ==
  LET t == createTransaction(d, [userId |-> userId, type |-> "WITHDRAWAL", asset |-> asset,
                                 amount |-> amount, status |-> "PENDING"])
      r == updateBalance(t.db.bal, userId, asset, [freeBalance |-> 0 - amount, lockedBalance |-> amount])
  IN IF ~HasRow(d.bal, userId, asset) THEN [ok |-> FALSE, db |-> d]
     ELSE IF d.bal[<<userId, asset>>].free < amount THEN [ok |-> FALSE, db |-> d]
     ELSE IF t.ok /\ r.ok THEN [ok |-> TRUE, db |-> [t.db EXCEPT !.bal = r.bal]]
     ELSE [ok |-> FALSE, db |-> d]

\* POST deposit: BEGIN, depositFunds, COMMIT or ROLLBACK; accounts are funded once per asset here
Deposit(userId, asset, amount) ==
  /\ pc = "idle"
  /\ ~HasRow(db.bal, userId, asset)
  /\ \E r \in {depositFunds(db, userId, asset, amount)} :
        /\ db' = r.db
        /\ saved' = r.db
  /\ UNCHANGED <<book, pc, cur, iter, nextId, cmdNo, emitSeq, subs, inbox, lastFill, outcome, observed, wsReady, wsClient,
                 lastError, kafkaVars, wsVars, published>>

\* POST withdraw: BEGIN, withdrawFunds, COMMIT or ROLLBACK
Withdraw(userId, asset, amount) ==
  /\ pc = "idle"
  /\ \E r \in {withdrawFunds(db, userId, asset, amount)} :
        /\ db' = r.db
        /\ saved' = r.db
  /\ UNCHANGED <<book, pc, cur, iter, nextId, cmdNo, emitSeq, subs, inbox, lastFill, outcome, observed, wsReady, wsClient,
                 lastError, kafkaVars, wsVars, published>>

\* eachMessage on a message of topic new-orders: BEGIN, handleNewOrder up to the call of
\* matchOrders; an error ends in ROLLBACK and a message to trading-errors
handleNewOrder(orderData) ==
  /\ pc = "idle"
  /\ nextId < MaxOrders
  /\ cmdNo < MaxCmds
  /\ \E r \in {createOrder(db, nextId + 1, orderData)} :
        IF r.ok
          THEN /\ db' = r.db
               /\ book' = addToOrderBook(book, r.order, r.db)
               /\ pc' = "matching"
               /\ cur' = r.order
               /\ nextId' = nextId + 1
               /\ lastError' = "none"
               /\ UNCHANGED outcome
          ELSE /\ outcome' = "rolledback"
               /\ lastError' = "new-orders"
               /\ UNCHANGED <<db, book, pc, cur, nextId>>
  /\ cmdNo' = IF observed THEN cmdNo + 1 ELSE cmdNo
  /\ iter' = 0
  /\ lastFill' = NoFill
  /\ UNCHANGED <<saved, emitSeq, subs, inbox, observed, wsReady, wsClient, wsVars, published>>

\* a GTC limit order, taken by the consumer as soon as it is sent
HandleNewOrder(userId, side, price, quantity) ==
  /\ handleNewOrder([userId |-> userId, type |-> "LIMIT", side |-> side, price |-> price,
                     quantity |-> quantity, timeInForce |-> "GTC"])
  /\ UNCHANGED kafkaVars

\* one iteration of the loop of matchOrders; an error ends the handler in ROLLBACK
MatchStep(dbError) ==
  /\ pc = "matching"
  /\ Crossing(book)
  /\ iter < MaxIter
  /\ \E r \in {matchIteration(db, book, [inbox |-> inbox, emitSeq |-> emitSeq, log |-> <<>>, thrown |-> FALSE], dbError)} :
        IF r.ok
          THEN /\ db' = r.db
               /\ book' = r.book
               /\ inbox' = r.w.inbox
               /\ emitSeq' = r.w.emitSeq
               /\ published' = r.w.log
               /\ iter' = iter + 1
               /\ lastFill' = [bid |-> book.bids[1].id, ask |-> book.asks[1].id,
                               bidPrice |-> book.bids[1].price, askPrice |-> book.asks[1].price,
                               price |-> tradePrice(book.bids[1], book.asks[1]),
                               quantity |-> tradeQuantity(book.bids[1], book.asks[1])]
               /\ UNCHANGED <<saved, pc, cur, outcome, lastError>>
          ELSE /\ db' = saved
               /\ pc' = "idle"
               /\ cur' = NoOrder
               /\ outcome' = "rolledback"
               /\ lastError' = "new-orders"
               /\ iter' = 0
               /\ lastFill' = NoFill
               /\ UNCHANGED <<saved, book, inbox, emitSeq, published>>
  /\ UNCHANGED <<nextId, cmdNo, subs, observed, wsReady, wsClient, kafkaVars, wsVars>>

\* the loop of matchOrders ends; handleNewOrder publishes the order; COMMIT, or ROLLBACK when
\* an exception leaves the handler
FinishNewOrder ==
  /\ pc = "matching"
  /\ ~Crossing(book)
  /\ \E w \in {publishOrderUpdate([inbox |-> inbox, emitSeq |-> emitSeq, log |-> <<>>, thrown |-> FALSE], cur)} :
        IF w.thrown
          THEN /\ db' = saved
               /\ outcome' = "rolledback"
               /\ lastError' = "new-orders"
               /\ UNCHANGED <<saved, inbox, emitSeq, published>>
          ELSE /\ saved' = db
               /\ outcome' = "committed"
               /\ inbox' = w.inbox
               /\ emitSeq' = w.emitSeq
               /\ published' = w.log
               /\ UNCHANGED <<db, lastError>>
  /\ pc' = "idle"
  /\ cur' = NoOrder
  /\ iter' = 0
  /\ lastFill' = NoFill
  /\ UNCHANGED <<book, nextId, cmdNo, subs, observed, wsReady, wsClient, kafkaVars, wsVars>>

\* eachMessage on a message of topic cancel-orders: BEGIN, handleCancelOrder, COMMIT, or
\* ROLLBACK and a message to trading-errors
handleCancelOrder(orderId, userId) ==
  /\ pc = "idle"
  /\ cmdNo < MaxCmds
  /\ \E r \in {cancelOrder(db, orderId, userId)} :
        IF r.rows = <<>>
          THEN /\ outcome' = "rolledback"
               /\ lastError' = "cancel-orders"
               /\ UNCHANGED <<db, saved, book, inbox, emitSeq, published>>
          ELSE LET cancelledOrder == r.rows[1]
                   w == publishOrderUpdate([inbox |-> inbox, emitSeq |-> emitSeq, log |-> <<>>, thrown |-> FALSE], cancelledOrder)
               IN /\ book' = IF ~book.has THEN book
                             ELSE IF cancelledOrder.side = "BUY"
                               THEN [book EXCEPT !.bids = SelectSeq(@, LAMBDA o : o.id # orderId)]
                               ELSE [book EXCEPT !.asks = SelectSeq(@, LAMBDA o : o.id # orderId)]
                  /\ IF w.thrown
                       THEN /\ outcome' = "rolledback"
                            /\ lastError' = "cancel-orders"
                            /\ UNCHANGED <<db, saved, inbox, emitSeq, published>>
                       ELSE /\ db' = r.db
                            /\ saved' = r.db
                            /\ inbox' = w.inbox
                            /\ emitSeq' = w.emitSeq
                            /\ published' = w.log
                            /\ outcome' = "committed"
                            /\ lastError' = "none"
  /\ cmdNo' = IF observed THEN cmdNo + 1 ELSE cmdNo
  /\ lastFill' = NoFill
  /\ UNCHANGED <<pc, cur, iter, nextId, subs, observed, wsReady, wsClient, wsVars>>

\* a cancel request, taken by the consumer as soon as it is sent
HandleCancelOrder(orderId, userId) ==
  /\ handleCancelOrder(orderId, userId)
  /\ UNCHANGED kafkaVars

\* the process is stopped and started again: the open transaction is lost, the order books
\* and the WebSocket clients start empty, the sockets of the old process are gone
Restart ==
  /\ db' = saved
  /\ book' = EmptyBook
  /\ pc' = "idle"
  /\ cur' = NoOrder
  /\ iter' = 0
  /\ subs' = [c \in Connections |-> {}]
  /\ clients' = {}
  /\ sockets' = [c \in Connections |->
                   IF sockets[c].readyState = "OPEN"
                     THEN [sockets[c] EXCEPT !.readyState = "CLOSED", !.auth = "done",
                                             !.pingPending = FALSE]
                     ELSE sockets[c]]
  /\ lastFill' = NoFill
  /\ outcome' = "none"
  /\ lastError' = "none"
  /\ UNCHANGED <<saved, nextId, cmdNo, emitSeq, inbox, observed, wsReady, wsClient, kafkaVars, published>>

----------------------------------------------------------------------------
(* The WebSocket service *)

\* ws.close(4001, 'Authentication failed')
AuthenticationFailed == 4001

\* the null that authenticateConnection returns
NullUser == ""

\* an authentication that trusts the user id of a verified token
authenticateConnection_unchecked_user(token) ==
  IF ~token.present THEN NullUser
  ELSE IF ~token.verifies THEN NullUser
  ELSE token.userId

\* WebSocketService.authenticateConnection, with JWT_SECRET set: null without a token, null when
\* jwt.verify throws, null when the user is not found
authenticateConnection(token) ==
  IF ~token.present THEN NullUser
  ELSE IF ~token.verifies THEN NullUser
  ELSE IF token.userId \notin Users THEN NullUser
  ELSE token.userId

\* wss.on('connection'): the socket is open and authenticateConnection is started
Connect(c, token) ==
  /\ wsReady
  /\ sockets[c].readyState = "NONE"
  /\ sockets' = [sockets EXCEPT ![c] = [NoSocket EXCEPT !.readyState = "OPEN", !.token = token,
                                                         !.auth = "pending"]]
  /\ UNCHANGED <<db, saved, book, pc, cur, iter, nextId, cmdNo, emitSeq, subs, inbox, lastFill, outcome,
                 observed, wsReady, wsClient, lastError, kafkaVars, clients, published>>

\* the then-callback of authenticateConnection: close with 4001, or register the client
Authenticated(c) ==
  /\ sockets[c].auth = "pending"
  /\ \E userId \in {authenticateConnection(sockets[c].token)} :
        IF userId = NullUser
          THEN /\ sockets' = [sockets EXCEPT ![c] =
                                IF @.readyState = "OPEN"
                                  THEN [@ EXCEPT !.auth = "done", !.readyState = "CLOSED",
                                                 !.closeCode = AuthenticationFailed]
                                  ELSE [@ EXCEPT !.auth = "done"]]
               /\ UNCHANGED <<clients, subs>>
          ELSE /\ sockets' = [sockets EXCEPT ![c] = [@ EXCEPT !.auth = "done", !.isAlive = TRUE]]
               /\ subs' = [subs EXCEPT ![c] = {}]
               /\ clients' = clients \cup {c}
  /\ UNCHANGED <<db, saved, book, pc, cur, iter, nextId, cmdNo, emitSeq, inbox, lastFill, outcome,
                 observed, wsReady, wsClient, lastError, kafkaVars, published>>

\* WebSocketService.handleSubscribe, on a message of a registered client
Subscribe(c, channel, symbol) ==
  /\ c \in clients
  /\ sockets[c].readyState = "OPEN"
  /\ subs' = [subs EXCEPT ![c] = @ \cup {subscriptionId(channel, symbol)}]
  /\ UNCHANGED <<db, saved, book, pc, cur, iter, nextId, cmdNo, emitSeq, inbox, lastFill, outcome, observed, wsReady, wsClient,
                 lastError, kafkaVars, wsVars, published>>

\* WebSocketService.handleUnsubscribe
Unsubscribe(c, channel, symbol) ==
  /\ c \in clients
  /\ sockets[c].readyState = "OPEN"
  /\ subs' = [subs EXCEPT ![c] = @ \ {subscriptionId(channel, symbol)}]
  /\ UNCHANGED <<db, saved, book, pc, cur, iter, nextId, cmdNo, emitSeq, inbox, lastFill, outcome, observed, wsReady, wsClient,
                 lastError, kafkaVars, wsVars, published>>

\* the client closes the connection; ws.on('close') of a registered client: clients.delete
Close(c) ==
  /\ sockets[c].readyState = "OPEN"
  /\ sockets' = [sockets EXCEPT ![c] = [@ EXCEPT !.readyState = "CLOSED", !.hungUp = TRUE,
                                                  !.pingPending = FALSE]]
  /\ clients' = clients \ {c}
  /\ UNCHANGED <<db, saved, book, pc, cur, iter, nextId, cmdNo, emitSeq, subs, inbox, lastFill, outcome,
                 observed, wsReady, wsClient, lastError, kafkaVars, published>>

\* a heartbeat that pings without marking the client
HeartbeatTick_unmarked ==
  /\ sockets' = [c \in Connections |->
                   IF c \notin clients THEN sockets[c]
                   ELSE IF ~sockets[c].isAlive
                     THEN [sockets[c] EXCEPT !.readyState = "CLOSED", !.pingPending = FALSE]
                     ELSE [sockets[c] EXCEPT !.pingPending = (sockets[c].readyState = "OPEN")]]
  /\ clients' = {c \in clients : sockets[c].isAlive \/ sockets[c].readyState # "OPEN"}
  /\ UNCHANGED <<db, saved, book, pc, cur, iter, nextId, cmdNo, emitSeq, subs, inbox, lastFill, outcome,
                 observed, wsReady, wsClient, lastError, kafkaVars, published>>

\* the callback of setInterval in startHeartbeat: a client whose isAlive is false is
\* terminated (its close event removes it from clients), the others are marked and pinged
HeartbeatTick ==
  /\ sockets' = [c \in Connections |->
                   IF c \notin clients THEN sockets[c]
                   ELSE IF ~sockets[c].isAlive
                     THEN [sockets[c] EXCEPT !.readyState = "CLOSED", !.pingPending = FALSE]
                     ELSE [sockets[c] EXCEPT !.isAlive = FALSE,
                                             !.pingPending = (sockets[c].readyState = "OPEN")]]
  /\ clients' = {c \in clients : sockets[c].isAlive \/ sockets[c].readyState # "OPEN"}
  /\ UNCHANGED <<db, saved, book, pc, cur, iter, nextId, cmdNo, emitSeq, subs, inbox, lastFill, outcome,
                 observed, wsReady, wsClient, lastError, kafkaVars, published>>

\* ws.on('pong'): the client answers the ping
Pong(c) ==
  /\ c \in clients
  /\ sockets[c].readyState = "OPEN"
  /\ sockets[c].pingPending
  /\ sockets' = [sockets EXCEPT ![c] = [@ EXCEPT !.isAlive = TRUE, !.pingPending = FALSE]]
  /\ UNCHANGED <<db, saved, book, pc, cur, iter, nextId, cmdNo, emitSeq, subs, inbox, lastFill, outcome,
                 observed, wsReady, wsClient, lastError, kafkaVars, clients, published>>

Next ==
  \/ \E f \in Fundings, m \in DepositAmounts : Deposit(f[1], f[2], m)
  \/ \E f \in Fundings, m \in WithdrawAmounts : Withdraw(f[1], f[2], m)
  \/ \E u \in Users, s \in Sides, p \in Prices, q \in Quantities : HandleNewOrder(u, s, p, q)
  \/ \E e \in BOOLEAN : MatchStep(e)
  \/ FinishNewOrder
  \/ \E i \in OrderIds, u \in Users : HandleCancelOrder(i, u)
  \/ Restart

Spec == Init /\ [][Next]_vars

\* the same program with the event stream observed: commands and emissions are numbered
\* and a WebSocket client subscribes to channels of the symbol
InitEvents ==
  /\ db = EmptyDb
  /\ saved = EmptyDb
  /\ book = EmptyBook
  /\ pc = "idle"
  /\ cur = NoOrder
  /\ iter = 0
  /\ nextId = 0
  /\ cmdNo = 0
  /\ emitSeq = 0
  /\ subs = [c \in Connections |-> {}]
  /\ inbox = [c \in Connections |-> <<>>]
  /\ lastFill = NoFill
  /\ outcome = "none"
  /\ observed = TRUE
  /\ lastError = "none"
  /\ topics = EmptyTopics
  /\ sent = 0
  /\ taken = 0
  /\ answers = <<>>
  /\ clients = {}
  /\ sockets = [c \in Connections |-> NoSocket]
  /\ published = <<>>
  /\ wsReady = TRUE
  /\ wsClient = NoClient

\* orders of the observed runs
EventQuantities == {1}

NextEvents ==
  \/ \E f \in Fundings, m \in DepositAmounts : Deposit(f[1], f[2], m)
  \/ \E u \in Users, s \in Sides, p \in Prices, q \in EventQuantities : HandleNewOrder(u, s, p, q)
  \/ \E e \in BOOLEAN : MatchStep(e)
  \/ FinishNewOrder
  \/ \E i \in OrderIds, u \in Users : HandleCancelOrder(i, u)
  \/ Connect("ws1", UserToken)
  \/ Authenticated("ws1")
  \/ \E c \in Channels : Subscribe("ws1", c, Symbol)

SpecEvents == InitEvents /\ [][NextEvents]_vars

----------------------------------------------------------------------------
(* Orders of every type and time in force *)

\* createOrder of the controller: price is parseFloat(price) || 0, and a MARKET order is sent
\* without a price
MarketPrice == 0

OrderTypes == {"LIMIT", "MARKET"}
TimesInForce == {"GTC", "IOC", "FOK"}
TypedQuantities == {1, 2}
TypedPrices == {1}

\* the order data the controller builds from a request
OrderRequests ==
  {[userId |-> u, type |-> t, side |-> s, price |-> IF t = "MARKET" THEN MarketPrice ELSE p,
    quantity |-> q, timeInForce |-> f] :
     u \in Users, t \in OrderTypes, s \in Sides, p \in TypedPrices, q \in TypedQuantities,
     f \in TimesInForce}

\* an order of any type, taken by the consumer as soon as it is sent
HandleOrderRequest(orderData) ==
  /\ handleNewOrder(orderData)
  /\ UNCHANGED kafkaVars

NextOrderTypes ==
  \/ \E f \in Fundings, m \in DepositAmounts : Deposit(f[1], f[2], m)
  \/ \E o \in OrderRequests : HandleOrderRequest(o)
  \/ \E e \in BOOLEAN : MatchStep(e)
  \/ FinishNewOrder
  \/ \E i \in OrderIds, u \in Users : HandleCancelOrder(i, u)

SpecOrderTypes == Init /\ [][NextOrderTypes]_vars

----------------------------------------------------------------------------
(* The engine with WebSocket clients that come and go *)

\* the orders of these runs: each takes the whole deposit of its user
WsOrders == {[userId |-> "u1", type |-> "LIMIT", side |-> "SELL", price |-> 1, quantity |-> 2,
              timeInForce |-> "GTC"],
             [userId |-> "u2", type |-> "LIMIT", side |-> "BUY", price |-> 1, quantity |-> 2,
              timeInForce |-> "GTC"]}

\* what each client asks for: ws1 follows the orders and trades of the symbol, ws2 the orders
\* of the symbol and of another one
Requests(c) ==
  IF c = "ws1" THEN {<<"order", Symbol>>, <<"trade", Symbol>>}
               ELSE {<<"order", Symbol>>, <<"order", OtherSymbol>>}

\* what a client gives up again
Unsubscriptions == {<<"order", Symbol>>}

\* the connections whose client hangs up
Leavers == {"ws2"}

NextPublish ==
  \/ \E f \in Fundings, m \in DepositAmounts : Deposit(f[1], f[2], m)
  \/ \E o \in WsOrders : HandleOrderRequest(o)
  \/ MatchStep(FALSE)
  \/ FinishNewOrder
  \/ \E c \in Connections : Connect(c, UserToken)
  \/ \E c \in Connections : Authenticated(c)
  \/ \E c \in Connections : \E r \in Requests(c) : Subscribe(c, r[1], r[2])
  \/ \E c \in Connections : \E r \in Unsubscriptions : Unsubscribe(c, r[1], r[2])
  \/ \E c \in Leavers : Close(c)

SpecPublish == InitEvents /\ [][NextPublish]_vars

\* connections with every kind of token, beside the engine
NextAuth ==
  \/ \E f \in Fundings, m \in DepositAmounts : Deposit(f[1], f[2], m)
  \/ \E o \in WsOrders : HandleOrderRequest(o)
  \/ MatchStep(FALSE)
  \/ FinishNewOrder
  \/ \E c \in Connections, t \in Tokens : Connect(c, t)
  \/ \E c \in Connections : Authenticated(c)
  \/ \E c \in Connections : Subscribe(c, "order", Symbol)
  \/ \E c \in Connections : Close(c)

SpecAuth == InitEvents /\ [][NextAuth]_vars

\* the heartbeat timer and the clients' answers
NextHeartbeat ==
  \/ \E c \in Connections, t \in Tokens : Connect(c, t)
  \/ \E c \in Connections : Authenticated(c)
  \/ \E c \in Connections : Close(c)
  \/ HeartbeatTick
  \/ \E c \in Connections : Pong(c)

SpecHeartbeat == Init /\ [][NextHeartbeat]_vars

----------------------------------------------------------------------------
(* The engine started before the WebSocket service *)

InitStartup ==
  /\ db = EmptyDb
  /\ saved = EmptyDb
  /\ book = EmptyBook
  /\ pc = "idle"
  /\ cur = NoOrder
  /\ iter = 0
  /\ nextId = 0
  /\ cmdNo = 0
  /\ emitSeq = 0
  /\ subs = [c \in Connections |-> {}]
  /\ inbox = [c \in Connections |-> <<>>]
  /\ lastFill = NoFill
  /\ outcome = "none"
  /\ observed = FALSE
  /\ lastError = "none"
  /\ topics = EmptyTopics
  /\ sent = 0
  /\ taken = 0
  /\ answers = <<>>
  /\ clients = {}
  /\ sockets = [c \in Connections |-> NoSocket]
  /\ published = <<>>
  /\ wsReady = FALSE
  /\ wsClient = NoClient

\* initWebSocket: the service is created if there is none yet
InitWebSocket ==
  /\ ~wsReady
  /\ wsReady' = TRUE
  /\ UNCHANGED <<db, saved, book, pc, cur, iter, nextId, cmdNo, emitSeq, subs, inbox, lastFill, outcome,
                 observed, lastError, kafkaVars, wsVars, published, wsClient>>

NextStartup ==
  \/ \E f \in Fundings, m \in DepositAmounts : Deposit(f[1], f[2], m)
  \/ \E u \in Users, s \in Sides, p \in Prices, q \in Quantities : HandleNewOrder(u, s, p, q)
  \/ \E e \in BOOLEAN : MatchStep(e)
  \/ FinishNewOrder
  \/ \E i \in OrderIds, u \in Users : HandleCancelOrder(i, u)
  \/ InitWebSocket

SpecStartup == InitStartup /\ [][NextStartup]_vars

----------------------------------------------------------------------------
(* unlock_order_funds on the tables the schema admits: an order that can be cancelled and the
   balance row of its owner, each within its CHECK constraints *)

FreeBalances == {0, 1 * Unit}
LockedBalances == {0, 1 * Unit, 2 * Unit, 4 * Unit}

\* asset_to_unlock of unlock_order_funds
UnlockAsset(order) == IF order.side = "BUY" THEN SqlQuoteAsset(Symbol) ELSE SqlBaseAsset(Symbol)

\* amount_to_unlock of unlock_order_funds
UnlockAmount(order) ==
  LET remaining_quantity == order.quantity - order.filledQuantity
  IN IF order.side = "BUY" THEN order.price * remaining_quantity * Unit ELSE remaining_quantity * Unit

InitUnlock ==
  \E u \in Users, s \in Sides, p \in Prices, q \in Quantities, f \in FreeBalances, l \in LockedBalances :
    \E filled \in 0..(q - 1) :
      LET order == [id |-> 1, userId |-> u, type |-> "LIMIT", side |-> s, price |-> p, quantity |-> q,
                    timeInForce |-> "GTC", filledQuantity |-> filled,
                    status |-> IF filled > 0 THEN "PARTIALLY_FILLED" ELSE "OPEN"]
          row == [free |-> f, locked |-> l]
          d == [EmptyDb EXCEPT !.orders = [i \in {1} |-> order],
                               !.bal = [k \in {<<u, UnlockAsset(order)>>} |-> row]]
      IN /\ valid_quantity(order)
         /\ valid_filled_quantity(order)
         /\ valid_balances(row)
         /\ db = d
         /\ saved = d
         /\ book = EmptyBook
         /\ pc = "idle"
         /\ cur = NoOrder
         /\ iter = 0
         /\ nextId = 1
         /\ cmdNo = 0
         /\ emitSeq = 0
         /\ subs = [c \in Connections |-> {}]
         /\ inbox = [c \in Connections |-> <<>>]
         /\ lastFill = NoFill
         /\ outcome = "none"
         /\ observed = FALSE
         /\ lastError = "none"
         /\ topics = EmptyTopics
         /\ sent = 0
         /\ taken = 0
         /\ answers = <<>>
         /\ clients = {}
         /\ sockets = [c \in Connections |-> NoSocket]
         /\ published = <<>>
         /\ wsReady = TRUE
         /\ wsClient = NoClient

NextUnlock == \E i \in OrderIds, u \in Users : HandleCancelOrder(i, u)

SpecUnlock == InitUnlock /\ [][NextUnlock]_vars

----------------------------------------------------------------------------
(* Deposits into accounts that may already have a balance row *)

MaxDeposits == 3
RepeatAmounts == {1 * Unit, 2 * Unit}

\* POST deposit: BEGIN, depositFunds, COMMIT or ROLLBACK, whether or not the row exists
DepositFunds(userId, asset, amount) ==
  /\ pc = "idle"
  /\ BagCardinality(db.txns) < MaxDeposits
  /\ \E r \in {depositFunds(db, userId, asset, amount)} :
        /\ db' = r.db
        /\ saved' = r.db
  /\ UNCHANGED <<book, pc, cur, iter, nextId, cmdNo, emitSeq, subs, inbox, lastFill, outcome, observed, wsReady, wsClient,
                 lastError, kafkaVars, wsVars, published>>

NextDeposit ==
  \/ \E f \in Fundings, m \in RepeatAmounts : DepositFunds(f[1], f[2], m)
  \/ \E u \in Users, s \in Sides, p \in Prices, q \in Quantities : HandleNewOrder(u, s, p, q)
  \/ \E e \in BOOLEAN : MatchStep(e)
  \/ FinishNewOrder
  \/ \E i \in OrderIds, u \in Users : HandleCancelOrder(i, u)

SpecDeposit == Init /\ [][NextDeposit]_vars

----------------------------------------------------------------------------
(* The WebSocket client of the front end *)

engineVars == <<db, saved, book, pc, cur, iter, nextId, cmdNo, emitSeq, subs, inbox, lastFill, outcome,
                observed, lastError, kafkaVars, wsVars, published, wsReady>>

\* connect(): returns at once when connected or without a token; otherwise a new WebSocket
\* (the object numbered s) replaces this.socket
connect(cl, s) ==
  IF cl.isConnected \/ ~cl.token
    THEN cl
    ELSE [cl EXCEPT !.socket = s, !.live[s] = "CONNECTING"]

\* attemptReconnect(): counts the attempt and sets the timer, unless the maximum is reached
attemptReconnect(cl) ==
  IF cl.reconnectAttempts >= maxReconnectAttempts
    THEN cl
    ELSE [cl EXCEPT !.reconnectAttempts = @ + 1, !.timers = @ + 1]

\* loadToken(): the token request of the constructor has answered
LoadToken ==
  /\ ~wsClient.token
  /\ wsClient' = [wsClient EXCEPT !.token = TRUE]
  /\ UNCHANGED engineVars

\* the application calls connect()
ClientConnect ==
  /\ \E s \in SocketIds :
        /\ wsClient.live[s] = "CLOSED"
        /\ wsClient' = connect(wsClient, s)
  /\ UNCHANGED engineVars

\* the application calls disconnect(): socket.close() on the current socket, whose handlers
\* stay attached; this.socket = null; isConnected = false
ClientDisconnect ==
  /\ wsClient.socket # 0
  /\ wsClient' = [wsClient EXCEPT
                    !.live[wsClient.socket] = IF @ = "CLOSED" THEN "CLOSED" ELSE "CLOSING",
                    !.socket = 0,
                    !.isConnected = FALSE]
  /\ UNCHANGED engineVars

\* socket.onopen
OnOpen(s) ==
  /\ wsClient.live[s] = "CONNECTING"
  /\ wsClient' = [wsClient EXCEPT !.live[s] = "OPEN", !.isConnected = TRUE, !.reconnectAttempts = 0]
  /\ UNCHANGED engineVars

\* socket.onclose of the object s, closed by the server, by the network or by disconnect():
\* isConnected = false, then attemptReconnect()
OnClose(s) ==
  /\ wsClient.live[s] # "CLOSED"
  /\ wsClient.reconnectAttempts >= maxReconnectAttempts \/ wsClient.timers < MaxTimers
  /\ wsClient' = attemptReconnect([wsClient EXCEPT !.live[s] = "CLOSED", !.isConnected = FALSE])
  /\ UNCHANGED engineVars

\* the callback of setTimeout in attemptReconnect: if (!this.isConnected) this.connect()
ReconnectTimer ==
  /\ wsClient.timers > 0
  /\ IF wsClient.isConnected
       THEN wsClient' = [wsClient EXCEPT !.timers = @ - 1]
       ELSE \E s \in SocketIds :
              /\ wsClient.live[s] = "CLOSED"
              /\ wsClient' = connect([wsClient EXCEPT !.timers = @ - 1], s)
  /\ UNCHANGED engineVars

NextClient ==
  \/ LoadToken
  \/ ClientConnect
  \/ ClientDisconnect
  \/ \E s \in SocketIds : OnOpen(s)
  \/ \E s \in SocketIds : OnClose(s)
  \/ ReconnectTimer

SpecClient == Init /\ [][NextClient]_vars

----------------------------------------------------------------------------
(* The commands on their way through Kafka *)

\* the requests sent through the topics
QueuedOrders ==
  {[userId |-> u, type |-> "LIMIT", side |-> s, price |-> 1, quantity |-> 1, timeInForce |-> "GTC"] :
     u \in Users, s \in Sides}

\* the values uuidv4() may return
Uuids == OrderIds

\* TradingService.createOrder: producer.send to new-orders; the caller gets its answer at once,
\* a snapshot with an id of its own (uuidv4()), status OPEN and filledQuantity 0
CreateOrder(orderData) ==
  /\ sent < MaxCmds
  /\ sent' = sent + 1
  /\ topics' = [topics EXCEPT !.newOrders = Append(@, [n |-> sent + 1, value |-> orderData])]
  /\ \E id \in Uuids :
        answers' = Append(answers, [id |-> id, userId |-> orderData.userId, status |-> "OPEN",
                                    filledQuantity |-> 0])
  /\ UNCHANGED <<db, saved, book, pc, cur, iter, nextId, cmdNo, emitSeq, subs, inbox, lastFill, outcome,
                 observed, wsReady, wsClient, lastError, taken, wsVars, published>>

\* TradingService.cancelOrder: producer.send to cancel-orders
CancelOrder(orderId, userId) ==
  /\ sent < MaxCmds
  /\ sent' = sent + 1
  /\ topics' = [topics EXCEPT !.cancelOrders =
                   Append(@, [n |-> sent + 1, value |-> [orderId |-> orderId, userId |-> userId]])]
  /\ UNCHANGED <<db, saved, book, pc, cur, iter, nextId, cmdNo, emitSeq, subs, inbox, lastFill, outcome,
                 observed, wsReady, wsClient, lastError, taken, answers, wsVars, published>>

\* consumer.run, eachMessage with the next message of new-orders; each topic keeps the order
\* of its messages, and the consumer takes the next message of either topic
ConsumeNewOrder ==
  /\ topics.newOrders # <<>>
  /\ handleNewOrder(Head(topics.newOrders).value)
  /\ topics' = [topics EXCEPT !.newOrders = Tail(@)]
  /\ taken' = Head(topics.newOrders).n
  /\ answers' = Tail(answers)
  /\ UNCHANGED sent

\* consumer.run, eachMessage with the next message of cancel-orders
ConsumeCancelOrder ==
  /\ topics.cancelOrders # <<>>
  /\ handleCancelOrder(Head(topics.cancelOrders).value.orderId, Head(topics.cancelOrders).value.userId)
  /\ topics' = [topics EXCEPT !.cancelOrders = Tail(@)]
  /\ taken' = Head(topics.cancelOrders).n
  /\ UNCHANGED <<sent, answers>>

NextKafka ==
  \/ \E f \in Fundings, m \in DepositAmounts : Deposit(f[1], f[2], m)
  \/ \E o \in QueuedOrders : CreateOrder(o)
  \/ \E i \in OrderIds, u \in Users : CancelOrder(i, u)
  \/ ConsumeNewOrder
  \/ ConsumeCancelOrder
  \/ \E e \in BOOLEAN : MatchStep(e)
  \/ FinishNewOrder

SpecKafka == Init /\ [][NextKafka]_vars

----------------------------------------------------------------------------
(* Vocabulary of the properties *)

\* the symbol registry: BTCUSDT is base BTC, quote USDT
BaseAsset == <<"B", "T", "C">>
QuoteAsset == <<"U", "S", "D", "T">>

\* every asset name a balance row can carry
AllAssets == {BaseAsset, QuoteAsset, SliceBaseAsset(Symbol), SliceQuoteAsset(Symbol),
              SqlBaseAsset(Symbol), SqlQuoteAsset(Symbol)}

FreeOf(bal, u, a) == IF HasRow(bal, u, a) THEN bal[<<u, a>>].free ELSE 0
LockedOf(bal, u, a) == IF HasRow(bal, u, a) THEN bal[<<u, a>>].locked ELSE 0

RECURSIVE TotalOver(_, _, _)
TotalOver(bal, us, a) ==
  IF us = {} THEN 0
  ELSE LET u == CHOOSE x \in us : TRUE
       IN FreeOf(bal, u, a) + LockedOf(bal, u, a) + TotalOver(bal, us \ {u}, a)

\* free + locked of an asset summed over every account
Total(bal, a) == TotalOver(bal, Users, a)

\* a step in which the matching loop makes a fill
FillStep == pc = "matching" /\ pc' = "matching" /\ iter' = iter + 1

----------------------------------------------------------------------------
(* C1: for every fill of the matching loop, the sum over all accounts of free + locked
   of each asset is the same before and after the fill. *)
C1_BalanceConservation ==
  [][FillStep => \A a \in AllAssets : Total(db'.bal, a) = Total(db.bal, a)]_vars

(* C2: every balance row has free >= 0 and locked >= 0, in every state: after every
   Submit, Cancel, Deposit, Withdraw and fill. *)
C2_NonNegativeBalances ==
  /\ \A k \in DOMAIN db.bal : db.bal[k].free >= 0 /\ db.bal[k].locked >= 0
  /\ \A k \in DOMAIN saved.bal : saved.bal[k].free >= 0 /\ saved.bal[k].locked >= 0

\* a fill has been settled and a lock has been taken: balances have moved
C2_Witness ==
  /\ pc = "matching"
  /\ iter >= 1
  /\ \E k \in DOMAIN db.bal : db.bal[k].free < 2 * Unit

(* C3: every persisted order has 0 <= filled <= quantity, and the filled quantities the
   matching loop is about to write for the two orders it selected are within the same bounds. *)
C3_FillBounds ==
  /\ \A i \in DOMAIN db.orders :
       0 <= db.orders[i].filledQuantity /\ db.orders[i].filledQuantity <= db.orders[i].quantity
  /\ (pc = "matching" /\ Crossing(book)) =>
       \A o \in {book.bids[1], book.asks[1]} :
         /\ 0 <= o.filledQuantity + tradeQuantity(book.bids[1], book.asks[1])
         /\ o.filledQuantity + tradeQuantity(book.bids[1], book.asks[1]) <= o.quantity

\* a fill of an order of quantity 2 by one of quantity 1 has been written
C3_Witness ==
  /\ pc = "matching"
  /\ \E i \in DOMAIN db.orders : db.orders[i].filledQuantity = 1 /\ db.orders[i].quantity = 2

\* o is at least as good as every order of its side: strictly better priced, or equally
\* priced and not accepted later
BestOf(o, side, dir) ==
  \A j \in 1..Len(side) :
    \/ dir * (o.price - side[j].price) < 0
    \/ o.price = side[j].price /\ o.id <= side[j].id

(* C4: whenever the matching loop is about to make a fill, the bid and the ask it selects
   are the best priced of their side and, among the orders at that price, the earliest
   accepted; for a book filled by Submit and for one hydrated from the order store. *)
C4_PriceTimePriority ==
  (pc = "matching" /\ Crossing(book)) =>
    /\ BestOf(book.bids[1], book.bids, -1)
    /\ BestOf(book.asks[1], book.asks, 1)

\* a fill is selected from a hydrated book (the incoming bid is in it twice) whose ask side
\* holds two orders at the same price
C4_Witness ==
  /\ pc = "matching"
  /\ Crossing(book)
  /\ Len(book.bids) >= 2
  /\ Len(book.asks) >= 2
  /\ book.asks[1].id # book.asks[2].id
  /\ book.asks[1].price = book.asks[2].price

(* C5: the price of every trade of the matching loop equals the limit price of the maker,
   the order of the pair that was accepted first. *)
C5_TradeAtMakerPrice ==
  lastFill.bid # 0 =>
    lastFill.price = IF lastFill.bid < lastFill.ask THEN lastFill.bidPrice ELSE lastFill.askPrice

(* C6: between commands, one side of the book is empty or best bid < best ask. *)
C6_NoCrossedBookAtRest == pc = "idle" => ~Crossing(book)

(* C7: a Cancel of an order that is already CANCELLED succeeds and changes no order,
   book or balance state. *)
C7_IdempotentCancel ==
  [][\A i \in OrderIds, u \in Users :
       (/\ HandleCancelOrder(i, u)
        /\ i \in DOMAIN db.orders
        /\ db.orders[i].userId = u
        /\ db.orders[i].status = "CANCELLED")
       => (outcome' = "committed" /\ db' = db /\ book' = book)]_vars

\* the events of one channel arrive in emission order, and emission order follows the
\* order of the commands that caused them
InOrder(box) ==
  \A i, j \in 1..Len(box) :
    (i < j /\ box[i].channel = box[j].channel) =>
      (box[i].seq < box[j].seq /\ box[i].cmd <= box[j].cmd)

(* C8: for each channel of the symbol, a subscribed client receives the events in the order
   the engine emitted them, and that order follows the order in which the commands that
   caused them were processed. *)
C8_EventOrder == \A c \in Connections : InOrder(inbox[c])

\* the client has received, on one channel, events of two different commands
C8_Witness ==
  \E c \in Connections : \E i, j \in 1..Len(inbox[c]) :
    i < j /\ inbox[c][i].channel = inbox[c][j].channel /\ inbox[c][i].cmd < inbox[c][j].cmd

(* C9: a fill of qty at price between buyer and seller changes exactly: seller
   locked(base) -= qty; buyer free(base) += qty - buyer_fee; buyer locked(quote) -= qty * price;
   seller free(quote) += qty * price - seller_fee. *)
C9_Settlement ==
  [][FillStep =>
       LET buyer == book.bids[1].userId
           seller == book.asks[1].userId
           qty == tradeQuantity(book.bids[1], book.asks[1]) * Unit
           value == tradeQuantity(book.bids[1], book.asks[1]) * tradePrice(book.bids[1], book.asks[1]) * Unit
           buyer_fee == qty \div CommissionDenominator
           seller_fee == value \div CommissionDenominator
       IN /\ LockedOf(db'.bal, seller, BaseAsset) = LockedOf(db.bal, seller, BaseAsset) - qty
          /\ FreeOf(db'.bal, buyer, BaseAsset) = FreeOf(db.bal, buyer, BaseAsset) + qty - buyer_fee
          /\ LockedOf(db'.bal, buyer, QuoteAsset) = LockedOf(db.bal, buyer, QuoteAsset) - value
          /\ FreeOf(db'.bal, seller, QuoteAsset) = FreeOf(db.bal, seller, QuoteAsset) + value - seller_fee]_vars

(* C10: on Submit, a BUY moves price * quantity of the quote asset from free to locked and a
   SELL moves quantity of the base asset; the lock fails when free < amount. *)
C10_SubmitLock ==
  [][\A u \in Users, s \in Sides, p \in Prices, q \in Quantities :
       HandleNewOrder(u, s, p, q) =>
         LET asset == IF s = "BUY" THEN QuoteAsset ELSE BaseAsset
             amount == IF s = "BUY" THEN p * q * Unit ELSE q * Unit
         IN IF FreeOf(db.bal, u, asset) < amount
              THEN pc' = "idle" /\ db' = db
              ELSE /\ pc' = "matching"
                   /\ FreeOf(db'.bal, u, asset) = FreeOf(db.bal, u, asset) - amount
                   /\ LockedOf(db'.bal, u, asset) = LockedOf(db.bal, u, asset) + amount]_vars

(* C11: when the submitting user's free balance is below the amount the order has to lock,
   the order is persisted with status REJECTED, the book is unchanged and no balance changes. *)
C11_InsufficientFundsRejected ==
  [][\A u \in Users, s \in Sides, p \in Prices, q \in Quantities :
       (/\ HandleNewOrder(u, s, p, q)
        /\ ~lock_order_funds(db.bal, [userId |-> u, side |-> s, price |-> p, quantity |-> q]).ok)
       => /\ book' = book
          /\ db'.bal = db.bal
          /\ \E i \in DOMAIN db'.orders \ DOMAIN db.orders :
               db'.orders[i].userId = u /\ db'.orders[i].status = "REJECTED"]_vars

(* C12: a Cancel that succeeds unlocks exactly the funds still reserved for the remaining
   quantity (quantity - filled) of the order: locking that remainder again gives back the
   balances before the Cancel, so Submit followed by Cancel of a never-filled order restores
   the user's free and locked balances. *)
C12_CancelUnlocks ==
  [][\A i \in OrderIds, u \in Users :
       (HandleCancelOrder(i, u) /\ lastError' = "none") =>
         LET remainder == [db.orders[i] EXCEPT !.quantity = @ - db.orders[i].filledQuantity]
         IN /\ lock_order_funds(db'.bal, remainder).ok
            /\ lock_order_funds(db'.bal, remainder).bal = db.bal]_vars

\* an order has been cancelled and its owner's balances are what the deposit made them
C12_Witness ==
  /\ pc = "idle"
  /\ outcome = "committed"
  /\ \E i \in DOMAIN db.orders :
       /\ db.orders[i].status = "CANCELLED"
       /\ \A j \in DOMAIN db.orders : db.orders[j].userId = db.orders[i].userId => j = i
       /\ \E k \in DOMAIN db.bal : k[1] = db.orders[i].userId /\ db.bal[k].free = 2 * Unit

(* C13: a Cancel by a user who does not own the order, or of an order that is not OPEN or
   PARTIALLY_FILLED, changes no order, removes nothing from the book and changes no balance. *)
C13_CancelGuard ==
  [][\A i \in OrderIds, u \in Users :
       (/\ HandleCancelOrder(i, u)
        /\ \/ i \notin DOMAIN db.orders
           \/ db.orders[i].userId # u
           \/ db.orders[i].status \notin OpenStatuses)
       => (db'.orders = db.orders /\ book' = book /\ db'.bal = db.bal)]_vars

\* a Cancel has just failed while every order id is in use and every order is open: it was a
\* Cancel of an open order by a user who does not own it
C13_Witness ==
  /\ lastError = "cancel-orders"
  /\ DOMAIN db.orders = OrderIds
  /\ \A i \in OrderIds : db.orders[i].status = "OPEN"

\* every entry of the two sides of the book
BookEntries(bk) == {bk.bids[j] : j \in 1..Len(bk.bids)} \cup {bk.asks[j] : j \in 1..Len(bk.asks)}

(* C14: once the handler of an IOC order has finished, the order does not rest in the book
   and its unfilled remainder is cancelled: the order is FILLED, or CANCELLED with its filled
   quantity kept. *)
C14_IOCRemainderCancelled ==
  pc = "idle" =>
    /\ \A o \in BookEntries(book) : o.timeInForce # "IOC"
    /\ \A i \in DOMAIN db.orders :
         db.orders[i].timeInForce = "IOC" => db.orders[i].status \in {"FILLED", "CANCELLED"}

\* the quantity the open orders of the other side offer at prices acceptable to an order
RECURSIVE Offered(_, _, _, _)
Offered(d, ids, side, price) ==
  IF ids = {} THEN 0
  ELSE LET i == CHOOSE x \in ids : TRUE
           o == d.orders[i]
           acceptable == /\ o.status \in OpenStatuses
                         /\ o.side # side
                         /\ IF side = "BUY" THEN o.price <= price ELSE o.price >= price
       IN (IF acceptable THEN o.quantity - o.filledQuantity ELSE 0)
          + Offered(d, ids \ {i}, side, price)

(* C15: a FOK order for more than the other side offers at acceptable prices is rejected as
   a whole: it is not inserted into the book and no matching (no trade, no fill) is made for it. *)
C15_FOKRejected ==
  [][\A o \in OrderRequests :
       (/\ HandleOrderRequest(o)
        /\ o.timeInForce = "FOK"
        /\ Offered(db, DOMAIN db.orders, o.side, o.price) < o.quantity)
       => /\ pc' = "idle"
          /\ \A e \in BookEntries(book') : e \in BookEntries(book)]_vars

(* C16: once the handler of a MARKET order has finished, the order is not in the book; and a
   fill of a MARKET order is made at the price of the order it is matched with. *)
C16_MarketNeverRests ==
  /\ pc = "idle" => \A o \in BookEntries(book) : o.type # "MARKET"
  /\ lastFill.bid # 0 =>
       /\ \A o \in BookEntries(book) :
            (o.type = "MARKET" /\ o.id = lastFill.ask) => lastFill.price = lastFill.bidPrice
       /\ \A o \in BookEntries(book) :
            (o.type = "MARKET" /\ o.id = lastFill.bid) => lastFill.price = lastFill.askPrice

\* the messages sent and not yet taken by the consumer
Queued == {topics.newOrders[j] : j \in 1..Len(topics.newOrders)}
          \cup {topics.cancelOrders[j] : j \in 1..Len(topics.cancelOrders)}

(* C17: the commands of the symbol are processed in the order they were enqueued: no command
   is still waiting when a command enqueued after it has been taken; in particular a Cancel
   enqueued after a Submit is not processed before that Submit. *)
C17_EnqueueOrder == \A m \in Queued : m.n > taken

\* the messages of a sequence of broadcast calls that go to the client of connection c: those
\* of the pairs its subscription set holds, when it is a connected client
Delivered(log, c) ==
  SelectSeq(log, LAMBDA m : /\ c \in clients
                            /\ sockets[c].readyState = "OPEN"
                            /\ subscriptionId(m.channel, m.symbol) \in subs[c])

(* C18: a publish on (channel, symbol) delivers the event once to exactly the connected
   clients whose subscription set holds that pair at that instant: a step that publishes
   appends to each client's inbox the published messages of the pairs it is subscribed to, in
   order and once each, and to a client that has unsubscribed, has disconnected or never
   subscribed nothing; a step that publishes nothing delivers nothing. *)
C18_PublishToSubscribers ==
  [][/\ emitSeq' = emitSeq => inbox' = inbox
     /\ emitSeq' # emitSeq =>
          /\ Len(published') = emitSeq' - emitSeq
          /\ \A c \in Connections : inbox'[c] = inbox[c] \o Delivered(published', c)]_vars

\* a connected client that has unsubscribed from everything missed the last event, which
\* another client received
C18_Witness ==
  \E c \in clients, d \in Connections :
    /\ sockets[c].readyState = "OPEN"
    /\ subs[c] = {}
    /\ inbox[c] # <<>>
    /\ inbox[c][Len(inbox[c])].seq < emitSeq
    /\ inbox[d] # <<>>
    /\ inbox[d][Len(inbox[d])].seq = emitSeq

(* C19: at a heartbeat tick, a connected client whose previous ping is still unanswered is
   terminated at that tick (its socket is closed and it leaves the client set), and a connected
   client that has answered every ping so far is not terminated and is pinged again. *)
C19_Heartbeat ==
  [][HeartbeatTick =>
       \A c \in clients :
         sockets[c].readyState = "OPEN" =>
           /\ sockets[c].pingPending => (sockets'[c].readyState = "CLOSED" /\ c \notin clients')
           /\ ~sockets[c].pingPending =>
                (sockets'[c].readyState = "OPEN" /\ c \in clients' /\ sockets'[c].pingPending)]_vars

\* the heartbeat has terminated one client, and another one is connected with a ping on its way
C19_Witness ==
  \E c, d \in Connections :
    /\ sockets[c].readyState = "CLOSED"
    /\ sockets[c].auth = "done"
    /\ sockets[c].closeCode = 0
    /\ ~sockets[c].hungUp
    /\ c \notin clients
    /\ d \in clients
    /\ sockets[d].readyState = "OPEN"
    /\ sockets[d].pingPending

\* the token verifies and its user exists
ValidToken(token) == token.present /\ token.verifies /\ token.userId \in Users

(* C20: a connection is in the client set only if its token verifies and the token's user
   exists; a connection whose token is invalid is never in the client set and never receives a
   broadcast, and once its authentication has ended it is closed, with code 4001 unless the
   client had hung up before. *)
C20_OnlyAuthenticated ==
  \A c \in Connections :
    /\ c \in clients => ValidToken(sockets[c].token)
    /\ (sockets[c].readyState # "NONE" /\ ~ValidToken(sockets[c].token)) =>
          /\ c \notin clients
          /\ inbox[c] = <<>>
          /\ sockets[c].auth = "done" =>
                /\ sockets[c].readyState = "CLOSED"
                /\ sockets[c].closeCode = AuthenticationFailed \/ sockets[c].hungUp

\* a connection with the verified token of a user that does not exist was closed with 4001,
\* and a registered client has received a broadcast
C20_Witness ==
  \E c, d \in Connections :
    /\ sockets[c].token.verifies
    /\ sockets[c].token.userId \notin Users
    /\ sockets[c].closeCode = AuthenticationFailed
    /\ d \in clients
    /\ inbox[d] # <<>>

(* C21: the status of an order follows its filled quantity: in every reachable state an order
   is FILLED if and only if its filled quantity equals its quantity, and a PARTIALLY_FILLED
   order has a filled quantity strictly between 0 and its quantity. *)
C21_StatusFollowsFill ==
  \A i \in DOMAIN db.orders :
    /\ db.orders[i].status = "FILLED" <=> db.orders[i].filledQuantity = db.orders[i].quantity
    /\ db.orders[i].status = "PARTIALLY_FILLED" =>
          (0 < db.orders[i].filledQuantity /\ db.orders[i].filledQuantity < db.orders[i].quantity)

\* one order is FILLED and another one is PARTIALLY_FILLED
C21_Witness ==
  \E i, j \in DOMAIN db.orders :
    db.orders[i].status = "FILLED" /\ db.orders[j].status = "PARTIALLY_FILLED"

\* the quantity of a persisted order that is not filled yet
Remaining(d, id) == d.orders[id].quantity - d.orders[id].filledQuantity

(* C22: when the matching loop fills a bid and an ask that are both open with different
   remaining quantities, the fill adds exactly one trade, for the smaller remaining quantity;
   the smaller order becomes FILLED and leaves the book; the larger order becomes
   PARTIALLY_FILLED, its remaining quantity is reduced by the traded quantity and it stays at
   the top of its side. *)
C22_PartialFill ==
  [][(/\ FillStep
      /\ book.bids[1].id \in DOMAIN db.orders
      /\ book.asks[1].id \in DOMAIN db.orders
      /\ Remaining(db, book.bids[1].id) > 0
      /\ Remaining(db, book.asks[1].id) > 0
      /\ Remaining(db, book.bids[1].id) # Remaining(db, book.asks[1].id))
     => LET bid == book.bids[1].id
            ask == book.asks[1].id
            bidIsSmall == Remaining(db, bid) < Remaining(db, ask)
            small == IF bidIsSmall THEN bid ELSE ask
            large == IF bidIsSmall THEN ask ELSE bid
            q == Min(Remaining(db, bid), Remaining(db, ask))
        IN /\ Len(db'.trades) = Len(db.trades) + 1
           /\ db'.trades[Len(db'.trades)].quantity = q
           /\ db'.orders[small].status = "FILLED"
           /\ \A e \in BookEntries(book') : e.id # small
           /\ db'.orders[large].status = "PARTIALLY_FILLED"
           /\ Remaining(db', large) = Remaining(db, large) - q
           /\ IF bidIsSmall THEN book'.asks[1].id = large ELSE book'.bids[1].id = large]_vars

TerminalStatuses == {"FILLED", "CANCELLED", "REJECTED", "EXPIRED"}

\* the orders of d that are in a terminal state are in e with the same status and filled quantity
TerminalKept(d, e) ==
  \A i \in DOMAIN d.orders :
    d.orders[i].status \in TerminalStatuses =>
      /\ i \in DOMAIN e.orders
      /\ e.orders[i].status = d.orders[i].status
      /\ e.orders[i].filledQuantity = d.orders[i].filledQuantity

(* C23: terminal states are immutable: an order that is FILLED, CANCELLED, REJECTED or
   EXPIRED in the committed order store keeps its status and filled quantity in every later
   step, and within a transaction no command or fill changes the status or filled quantity
   of an order that is terminal; only the rollback of the transaction that made it terminal
   undoes that. *)
C23_TerminalImmutable ==
  [][/\ TerminalKept(saved, saved')
     /\ TerminalKept(db, db') \/ (db' = saved /\ db # saved)]_vars

\* a cancelled order is in the committed store while a later command is matching, and an
\* order has become FILLED in the transaction in flight
C23_Witness ==
  /\ pc = "matching"
  /\ iter >= 1
  /\ \E i \in DOMAIN saved.orders : saved.orders[i].status = "CANCELLED"
  /\ \E i \in DOMAIN db.orders : db.orders[i].status = "FILLED"

(* C24: after any command, also one whose transaction was rolled back, every entry of the
   in-memory book is an order that is persisted with status OPEN or PARTIALLY_FILLED. *)
C24_BookHoldsOpenOrders ==
  pc = "idle" =>
    \A e \in BookEntries(book) :
      e.id \in DOMAIN db.orders /\ db.orders[e.id].status \in OpenStatuses

\* a step in which the matching loop fails and the handler ends in ROLLBACK
AbortStep == pc = "matching" /\ pc' = "idle" /\ outcome' = "rolledback"

(* C25: when the settlement of a fill fails, the match in flight is aborted: the order store,
   the trades and the balances are back at their state before the command, and the book is
   left as it was before the command, so the order of the command is not in it. *)
C25_AbortRestoresBook ==
  [][AbortStep =>
       /\ db' = saved
       /\ \A e \in BookEntries(book') : e.id # cur.id]_vars

(* C26: each fill produces exactly one trade record: a fill of the matching loop adds one row
   to the trades, so that the rows a command adds are as many as the fills it made. *)
C26_OneTradePerFill ==
  [][FillStep => Len(db'.trades) = Len(db.trades) + 1]_vars

\* the rows a step adds to the trades
NewTrades(d, e) == {e.trades[k] : k \in (Len(d.trades) + 1)..Len(e.trades)}

(* C27: in every fill between the incoming order of the command and an order that was
   resting in the book, the resting order is the maker and the incoming order the taker: the
   trade rows of the fill are flagged is_maker exactly when they are the maker's, there is a
   row of the maker, and the rows record both the buyer's and the seller's user. *)
C27_MakerTaker ==
  [][(/\ FillStep
      /\ book.bids[1].id # book.asks[1].id
      /\ cur.id \in {book.bids[1].id, book.asks[1].id})
     => LET maker == IF cur.id = book.bids[1].id THEN book.asks[1] ELSE book.bids[1]
        IN /\ \A r \in NewTrades(db, db') : r.isMaker <=> r.orderId = maker.id
           /\ \E r \in NewTrades(db, db') : r.orderId = maker.id
           /\ {book.bids[1].userId, book.asks[1].userId} \subseteq
                 {r.userId : r \in NewTrades(db, db')}]_vars

(* C28: a failure while publishing an order or trade event is swallowed: while the WebSocket
   service cannot be reached, a handler of a new order that has ended its matching loop still
   commits what it wrote, and a cancellation of an open order of its owner still commits the
   CANCELLED row; the failed publication rolls nothing back. *)
C28_PublishErrorsSwallowed ==
  [][~wsReady =>
       /\ (pc = "matching" /\ ~Crossing(book) /\ pc' = "idle") =>
            (outcome' = "committed" /\ db' = db /\ saved' = db)
       /\ \A i \in OrderIds, u \in Users :
            (/\ HandleCancelOrder(i, u)
             /\ i \in DOMAIN db.orders
             /\ db.orders[i].userId = u
             /\ db.orders[i].status \in OpenStatuses)
            => (outcome' = "committed" /\ saved' = db' /\ db'.orders[i].status = "CANCELLED")]_vars

\* with the service out of reach, an order was committed after a fill attempt of an earlier
\* command, and one order was cancelled
C28_Witness ==
  /\ ~wsReady
  /\ pc = "idle"
  /\ outcome = "committed"
  /\ \E i \in DOMAIN saved.orders : saved.orders[i].status = "CANCELLED"
  /\ \E i \in DOMAIN saved.orders : saved.orders[i].status = "OPEN"

(* C29: an unlock at cancellation that would make the locked balance negative fails: the
   cancellation of an open order by its owner whose reserved amount exceeds the locked balance of
   the row is rolled back, so the order is not CANCELLED afterwards and nothing was skipped. *)
C29_UnlockFailsCancellation ==
  [][\A i \in OrderIds, u \in Users :
       (/\ HandleCancelOrder(i, u)
        /\ i \in DOMAIN db.orders
        /\ db.orders[i].userId = u
        /\ db.orders[i].status \in OpenStatuses
        /\ HasRow(db.bal, u, UnlockAsset(db.orders[i]))
        /\ db.bal[<<u, UnlockAsset(db.orders[i])>>].locked < UnlockAmount(db.orders[i]))
       => (/\ outcome' = "rolledback"
           /\ db' = db
           /\ db'.orders[i].status # "CANCELLED")]_vars

\* the row of (userId, asset), a missing row counting as an empty one
BalanceOf(bal, userId, asset) ==
  IF HasRow(bal, userId, asset) THEN bal[<<userId, asset>>] ELSE [free |-> 0, locked |-> 0]

(* C30: depositFunds(user, asset, amount) increases the free balance of (user, asset) by exactly
   amount, also when the row already exists, and leaves the locked balance of that row and every
   other balance row unchanged. *)
C30_DepositAddsToFree ==
  [][\A f \in Fundings, m \in RepeatAmounts :
       DepositFunds(f[1], f[2], m) =>
         /\ BalanceOf(db'.bal, f[1], f[2]).free = BalanceOf(db.bal, f[1], f[2]).free + m
         /\ BalanceOf(db'.bal, f[1], f[2]).locked = BalanceOf(db.bal, f[1], f[2]).locked
         /\ \A k \in DOMAIN db.bal \ {<<f[1], f[2]>>} : k \in DOMAIN db'.bal /\ db'.bal[k] = db.bal[k]
         /\ DOMAIN db'.bal \subseteq DOMAIN db.bal \cup {<<f[1], f[2]>>}]_vars

(* C31: withdrawFunds with amount <= free moves exactly amount from free to locked and records
   a PENDING withdrawal: wherever the engine is idle and a funded row covers the amount, the
   withdrawal succeeds, free falls and locked rises by amount, and one transaction is added. *)
C31_WithdrawMovesToLocked ==
  \A f \in Fundings, m \in WithdrawAmounts :
    (/\ pc = "idle"
     /\ HasRow(db.bal, f[1], f[2])
     /\ db.bal[<<f[1], f[2]>>].free >= m)
    => LET r == withdrawFunds(db, f[1], f[2], m)
           k == <<f[1], f[2]>>
       IN /\ r.ok
          /\ r.db.bal[k].free = db.bal[k].free - m
          /\ r.db.bal[k].locked = db.bal[k].locked + m
          /\ BagCardinality(r.db.txns) = BagCardinality(db.txns) + 1

\* free + locked of the row of (userId, asset)
TotalBalance(bal, userId, asset) == BalanceOf(bal, userId, asset).free + BalanceOf(bal, userId, asset).locked

(* C32: outside of matching, the total free + locked of a user's asset changes only together
   with a transaction of that user and asset recorded with status COMPLETED. *)
C32_TotalChangesWithCompleted ==
  [][\A k \in DOMAIN db'.bal :
       (/\ pc = "idle"
        /\ pc' = "idle"
        /\ TotalBalance(db'.bal, k[1], k[2]) # TotalBalance(db.bal, k[1], k[2]))
       => \E t \in BagToSet(db'.txns) :
            /\ CopiesIn(t, db'.txns) > CopiesIn(t, db.txns)
            /\ t.userId = k[1]
            /\ t.asset = k[2]
            /\ t.status = "COMPLETED"]_vars

\* the remaining quantity (quantity - filledQuantity) of the orders of one side, as matchOrders reads it
RECURSIVE SeenRemaining(_)
SeenRemaining(orders) ==
  IF orders = <<>> THEN 0
  ELSE (Head(orders).quantity - Head(orders).filledQuantity) + SeenRemaining(Tail(orders))

(* C33: the matching loop terminates because each fill strictly reduces the total remaining
   quantity the loop sees in the book: after every iteration that made a fill, the remaining
   quantity summed over the bids and asks of the book is smaller than before it. *)
C33_FillReducesRemaining ==
  [][FillStep =>
       SeenRemaining(book'.bids) + SeenRemaining(book'.asks)
         < SeenRemaining(book.bids) + SeenRemaining(book.asks)]_vars

\* the ids of the orders in the book, bids first
BookIds(bk) == [i \in 1..(Len(bk.bids) + Len(bk.asks)) |->
                  IF i <= Len(bk.bids) THEN bk.bids[i].id ELSE bk.asks[i - Len(bk.bids)].id]

(* C34: each order id occurs at most once in the in-memory book, also right after the Submit
   that created the book by hydrating it from the open orders. *)
C34_UniqueIdsInBook ==
  \A i, j \in DOMAIN BookIds(book) : BookIds(book)[i] = BookIds(book)[j] => i = j

(* C35: the order id in the snapshot createOrder returned to the caller is the id under which
   the engine persists that order: when the consumer takes the message of new-orders and the
   order is created, its id is the id of the answer given for that message. *)
C35_ReturnedIdIsPersistedId ==
  [][(/\ topics.newOrders # <<>>
      /\ topics'.newOrders = Tail(topics.newOrders)
      /\ pc = "idle"
      /\ pc' = "matching")
     => cur'.id = Head(answers).id]_vars

(* C36: every trade or order event delivered to subscribers describes committed state: when no
   transaction is in flight, each trade event in a client's inbox is a trade of the database
   and each order event that reports a fill is about an order that has that fill. *)
C36_EventsDescribeCommittedState ==
  pc = "idle" =>
    \A c \in Connections : \A i \in DOMAIN inbox[c] :
      LET m == inbox[c][i]
      IN /\ m.channel = "trade" =>
              \E j \in DOMAIN db.trades : db.trades[j].orderId = m.data.orderId
         /\ (m.channel = "order" /\ m.data.filledQuantity > 0) =>
              /\ m.data.id \in DOMAIN db.orders
              /\ db.orders[m.data.id].filledQuantity >= m.data.filledQuantity

\* the order events a client has received about the order of the given id, in order of receipt
OrderEvents(box, id) == SelectSeq(box, LAMBDA m : m.channel = "order" /\ m.data.id = id)

(* C37: after a Submit command has been processed, the last order event emitted for the
   submitted order carries the order's final persisted status and filled quantity: when the
   handler of a new order ends, the last event a client has received about that order is about
   a row of the database and has that row's status and filled quantity. *)
C37_LastEventIsFinalState ==
  [][(pc = "matching" /\ pc' = "idle") =>
       \A c \in Connections :
         LET evs == OrderEvents(inbox'[c], cur.id)
         IN evs # <<>> =>
              /\ cur.id \in DOMAIN db'.orders
              /\ evs[Len(evs)].data.status = db'.orders[cur.id].status
              /\ evs[Len(evs)].data.filledQuantity = db'.orders[cur.id].filledQuantity]_vars

(* C38: after an explicit disconnect() the front-end client schedules no reconnect, and it
   makes at most maxReconnectAttempts reconnects in a row without a successful open: the close
   event of a socket that disconnect() closed leaves the attempt counter and the timers as
   they are, and the counter never exceeds the maximum. *)
C38_NoReconnectAfterDisconnect ==
  [][/\ \A s \in SocketIds :
          (wsClient.live[s] = "CLOSING" /\ wsClient'.live[s] = "CLOSED") =>
            /\ wsClient'.timers = wsClient.timers
            /\ wsClient'.reconnectAttempts = wsClient.reconnectAttempts
     /\ wsClient'.reconnectAttempts <= maxReconnectAttempts]_vars

====
